---- MODULE Spec2Model ----
(***************************************************************************)
(* A state-machine model of the CHIP-8 virtual machine of                  *)
(* AaronLi/Chip-8-Emulator-rs: the instruction decoder                     *)
(* (src/chip8_instruction_set.rs) and the execution engine (src/chip8.rs), *)
(* driven by the host loop of src/main.rs.                                 *)
(***************************************************************************)
EXTENDS Integers, Sequences, FiniteSets, TLC

(***************************************************************************)
(* Construction parameters of Chip8::new, chosen small.                    *)
(***************************************************************************)
\* args.memory, the number of bytes of memory (4096 by default), is
\* ProgramStart and ProgramSlots two-byte instruction slots after it
ProgramSlots == 8
\* args.stack: the length the stack vector is created with (16 by default)
StackSize == 1

\* the address programs are loaded at and execution starts from (0x200)
ProgramStart == 512
MemSize == ProgramStart + 2 * ProgramSlots

Byte == 0..255
Reg == 0..15

(***************************************************************************)
(* Arithmetic of the fixed-width integer types.                            *)
(***************************************************************************)
RECURSIVE bitand(_, _)
bitand(a, b) ==
    IF a = 0 \/ b = 0 THEN 0
    ELSE (IF a % 2 = 1 /\ b % 2 = 1 THEN 1 ELSE 0) + 2 * bitand(a \div 2, b \div 2)

RECURSIVE bitor(_, _)
bitor(a, b) ==
    IF a = 0 THEN b
    ELSE IF b = 0 THEN a
    ELSE (IF a % 2 = 1 \/ b % 2 = 1 THEN 1 ELSE 0) + 2 * bitor(a \div 2, b \div 2)

RECURSIVE bitxor(_, _)
bitxor(a, b) ==
    IF a = 0 THEN b
    ELSE IF b = 0 THEN a
    ELSE (IF a % 2 # b % 2 THEN 1 ELSE 0) + 2 * bitxor(a \div 2, b \div 2)

\* u8 >> n
shr(a, n) == a \div (2 ^ n)
\* u8 << n, the bits shifted out of the byte are lost
shl8(a, n) == (a * (2 ^ n)) % 256

(***************************************************************************)
(* The decoder.  An instruction is a record with its variant's name in op  *)
(* and its operands; decode's None is the record NoInstruction.            *)
(***************************************************************************)
NoInstruction == [op |-> "None"]

get_address(instruction) == bitand(instruction[1], 15) * 256 + instruction[2]

get_registers(instruction) == <<bitand(instruction[1], 15), shr(instruction[2], 4)>>

decode_0_class_instruction(instruction) ==
    IF instruction[1] = 0 THEN
        CASE instruction[2] = 224 -> [op |-> "ClearScreen"]
          [] instruction[2] = 238 -> [op |-> "ReturnFromSubroutine"]
          [] OTHER -> NoInstruction
    ELSE IF instruction[1] \in 2..15 THEN
        [op |-> "ExecSubroutineML", addr |-> get_address(instruction)]
    ELSE NoInstruction

decode_1_class_instruction(instruction) ==
    IF instruction[1] \in 18..31 THEN
        [op |-> "JumpToAddress", addr |-> get_address(instruction)]
    ELSE NoInstruction

decode_2_class_instruction(instruction) ==
    IF instruction[1] \in 34..47 THEN
        [op |-> "ExecSubroutine", addr |-> get_address(instruction)]
    ELSE NoInstruction

decode_3_class_instruction(instruction) ==
    IF instruction[1] \in 48..63 THEN
        [op |-> "SkipFollowingIfRegEq", reg0 |-> get_registers(instruction)[1],
         value |-> instruction[2]]
    ELSE NoInstruction

decode_4_class_instruction(instruction) ==
    IF instruction[1] \in 64..79 THEN
        [op |-> "SkipFollowingIfRegNeq", reg0 |-> get_registers(instruction)[1],
         value |-> instruction[2]]
    ELSE NoInstruction

decode_5_class_instruction(instruction) ==
    LET registers == get_registers(instruction) IN
    IF instruction[1] \in 80..95 /\ bitand(instruction[2], 15) = 0 THEN
        [op |-> "SkipFollowingIfRegEqReg", reg0 |-> registers[1], reg1 |-> registers[2]]
    ELSE NoInstruction

decode_6_class_instruction(instruction) ==
    IF instruction[1] \in 96..111 THEN
        [op |-> "StoreToReg", reg0 |-> get_registers(instruction)[1],
         value |-> instruction[2]]
    ELSE NoInstruction

decode_7_class_instruction(instruction) ==
    IF instruction[1] \in 112..127 THEN
        [op |-> "AddToReg", reg0 |-> get_registers(instruction)[1],
         value |-> instruction[2]]
    ELSE NoInstruction

\* the class-8 decoder taking selector F for a shift-left as well
decode_8_class_instruction_E_or_F(instruction) ==
    LET registers == get_registers(instruction)
        sel == bitand(instruction[2], 15)
        name == CASE sel = 0 -> "MoveValue"
                  [] sel = 1 -> "OrRegister"
                  [] sel = 2 -> "AndRegister"
                  [] sel = 3 -> "XorRegister"
                  [] sel = 4 -> "AddWithCarry"
                  [] sel = 5 -> "SubWithCarry"
                  [] sel = 6 -> "ShiftRight"
                  [] sel = 7 -> "SubWithCarry2"
                  [] sel \in {14, 15} -> "ShiftLeft"
                  [] OTHER -> "None"
    IN
    IF instruction[1] \in 128..143 /\ name # "None" THEN
        [op |-> name, reg0 |-> registers[1], reg1 |-> registers[2]]
    ELSE NoInstruction

decode_8_class_instruction(instruction) ==
    LET registers == get_registers(instruction)
        sel == bitand(instruction[2], 15)
        name == CASE sel = 0 -> "MoveValue"
                  [] sel = 1 -> "OrRegister"
                  [] sel = 2 -> "AndRegister"
                  [] sel = 3 -> "XorRegister"
                  [] sel = 4 -> "AddWithCarry"
                  [] sel = 5 -> "SubWithCarry"
                  [] sel = 6 -> "ShiftRight"
                  [] sel = 7 -> "SubWithCarry2"
                  [] sel = 14 -> "ShiftLeft"
                  [] OTHER -> "None"
    IN
    IF instruction[1] \in 128..143 /\ name # "None" THEN
        [op |-> name, reg0 |-> registers[1], reg1 |-> registers[2]]
    ELSE NoInstruction

\* the class-9 decoder accepting any low nibble of the second byte
decode_9_class_instruction_any_nibble(instruction) ==
    IF instruction[1] \in 144..159 THEN
        LET reg == get_registers(instruction) IN
        [op |-> "SkipIfNE", reg0 |-> reg[1], reg1 |-> reg[2]]
    ELSE NoInstruction

decode_9_class_instruction(instruction) ==
    IF instruction[1] \in 144..159 /\ bitand(instruction[2], 15) = 0 THEN
        LET reg == get_registers(instruction) IN
        [op |-> "SkipIfNE", reg0 |-> reg[1], reg1 |-> reg[2]]
    ELSE NoInstruction

decode_a_class_instruction(instruction) ==
    IF instruction[1] \in 162..175 THEN
        [op |-> "StoreAddressToI", addr |-> get_address(instruction)]
    ELSE NoInstruction

decode_b_class_instruction(instruction) ==
    IF instruction[1] \in 178..191 THEN
        [op |-> "JumpWithOffset", addr |-> get_address(instruction)]
    ELSE NoInstruction

decode_c_class_instruction(instruction) ==
    IF instruction[1] \in 192..207 THEN
        [op |-> "RandWithMask", reg0 |-> get_registers(instruction)[1],
         value |-> instruction[2]]
    ELSE NoInstruction

decode_d_class_instruction(instruction) ==
    IF instruction[1] \in 208..223 THEN
        LET regs == get_registers(instruction) IN
        [op |-> "DrawSprite", reg0 |-> regs[1], reg1 |-> regs[2],
         value |-> bitand(instruction[2], 15)]
    ELSE NoInstruction

decode_e_class_instruction(instruction) ==
    IF instruction[1] \in 224..239 THEN
        CASE instruction[2] = 158 ->
                [op |-> "SkipIfKeyPressed", reg0 |-> get_registers(instruction)[1]]
          [] instruction[2] = 161 ->
                [op |-> "SkipIfKeyNotPressed", reg0 |-> get_registers(instruction)[1]]
          [] OTHER -> NoInstruction
    ELSE NoInstruction

decode_f_class_instruction(instruction) ==
    LET reg == get_registers(instruction)[1]
        b == instruction[2]
        name == CASE b = 7 -> "ReadDelayTimer"
                  [] b = 10 -> "WaitForKey"
                  [] b = 21 -> "WriteDelayTimer"
                  [] b = 24 -> "WriteSoundTimer"
                  [] b = 30 -> "IncrementIWithReg"
                  [] b = 41 -> "GetSpriteDataAddress"
                  [] b = 51 -> "StoreBCD"
                  [] b = 85 -> "StoreRegisters"
                  [] b = 101 -> "FillRegisters"
                  [] OTHER -> "None"
    IN
    IF instruction[1] \in 240..255 /\ name # "None" THEN [op |-> name, reg0 |-> reg]
    ELSE NoInstruction

decode(instruction) ==
    LET class == shr(instruction[1], 4) IN
    CASE class = 0 -> decode_0_class_instruction(instruction)
      [] class = 1 -> decode_1_class_instruction(instruction)
      [] class = 2 -> decode_2_class_instruction(instruction)
      [] class = 3 -> decode_3_class_instruction(instruction)
      [] class = 4 -> decode_4_class_instruction(instruction)
      [] class = 5 -> decode_5_class_instruction(instruction)
      [] class = 6 -> decode_6_class_instruction(instruction)
      [] class = 7 -> decode_7_class_instruction(instruction)
      [] class = 8 -> decode_8_class_instruction(instruction)
      [] class = 9 -> decode_9_class_instruction(instruction)
      [] class = 10 -> decode_a_class_instruction(instruction)
      [] class = 11 -> decode_b_class_instruction(instruction)
      [] class = 12 -> decode_c_class_instruction(instruction)
      [] class = 13 -> decode_d_class_instruction(instruction)
      [] class = 14 -> decode_e_class_instruction(instruction)
      [] class = 15 -> decode_f_class_instruction(instruction)
      [] OTHER -> NoInstruction

(***************************************************************************)
(* The machine state: the fields of struct Chip8.  display is the set of   *)
(* lit logical pixels <<column, row>> of the 64 x 32 screen; keymap is     *)
(* fixed at construction and is the definition keymap below.               *)
(* halted: the process has panicked.  overflow_checks: whether the build   *)
(* panics on integer overflow (debug profile) or wraps (release profile).  *)
(* disassembly: what the last call of Chip8::disassemble returned (<<>>     *)
(* before the first call).                                                 *)
(***************************************************************************)
VARIABLES memory, stack_memory, instruction_pointer, registers, keys,
          address_register, delay_timer, sound_timer, display, halted,
          overflow_checks, disassembly

vars == <<memory, stack_memory, instruction_pointer, registers, keys,
          address_register, delay_timer, sound_timer, display, halted,
          overflow_checks, disassembly>>

SPRITES ==
    << <<240, 144, 144, 144, 240>>, <<32, 96, 32, 32, 112>>,
       <<240, 16, 240, 128, 240>>,  <<240, 16, 240, 16, 240>>,
       <<144, 144, 240, 16, 16>>,   <<240, 128, 240, 16, 240>>,
       <<240, 128, 240, 144, 240>>, <<240, 16, 32, 64, 64>>,
       <<240, 144, 240, 144, 240>>, <<240, 144, 240, 16, 240>>,
       <<240, 144, 240, 144, 144>>, <<224, 144, 224, 144, 224>>,
       <<240, 128, 128, 128, 240>>, <<224, 144, 144, 144, 224>>,
       <<240, 128, 240, 128, 240>>, <<240, 128, 240, 128, 128>> >>

\* SPRITES.iter().flatten(): byte i (from 0) of the flattened table
SpriteByte(i) == SPRITES[(i \div 5) + 1][(i % 5) + 1]
SpriteBytes == 80

\* the entries main passes to HashMap::from, in order
keymap_entries ==
    << <<"Key1", 1>>, <<"Key2", 2>>, <<"Key3", 3>>, <<"Q", 4>>, <<"W", 5>>,
       <<"E", 6>>, <<"A", 7>>, <<"S", 8>>, <<"D", 9>>, <<"Z", 10>>, <<"X", 0>>,
       <<"C", 11>>, <<"Key4", 12>>, <<"R", 13>>, <<"F", 14>>, <<"C", 15>> >>

\* HashMap::from inserts the entries in order: a later entry with the same
\* key replaces the earlier one
keymap_has(key) == \E i \in DOMAIN keymap_entries : keymap_entries[i][1] = key
keymap_get(key) ==
    LET last == CHOOSE i \in DOMAIN keymap_entries :
                    /\ keymap_entries[i][1] = key
                    /\ \A j \in DOMAIN keymap_entries :
                          keymap_entries[j][1] = key => j <= i
    IN keymap_entries[last][2]

Machine ==
    [memory |-> memory, stack_memory |-> stack_memory,
     instruction_pointer |-> instruction_pointer, registers |-> registers,
     keys |-> keys, address_register |-> address_register,
     delay_timer |-> delay_timer, sound_timer |-> sound_timer,
     display |-> display, halted |-> halted]

\* what Chip8::new returns
NewMachine ==
    [memory |-> [a \in 0..(MemSize - 1) |-> 0],
     stack_memory |-> [i \in 1..StackSize |-> 0],
     instruction_pointer |-> ProgramStart,
     registers |-> [r \in Reg |-> 0],
     keys |-> [k \in Reg |-> FALSE],
     address_register |-> 0, delay_timer |-> 0, sound_timer |-> 0,
     display |-> {}, halted |-> FALSE]

\* A panic unwinds out of main and ends the process: the machine is dropped
\* and nothing of its state is left to observe.  Every panic leads to the
\* one state Crashed, whose only meaningful field is halted.
Crashed == [NewMachine EXCEPT !.halted = TRUE]
Panic(s) == Crashed

wrap16(v) == (v + 65536) % 65536
wrap8(v) == (v + 256) % 256

\* an assignment of the u16 arithmetic result v to the instruction pointer
set_instruction_pointer(s, v) ==
    IF v \in 0..65535 THEN [s EXCEPT !.instruction_pointer = v]
    ELSE IF overflow_checks THEN Panic(s)
    ELSE [s EXCEPT !.instruction_pointer = wrap16(v)]

\* an assignment of the u16 arithmetic result v to the address register
set_address_register(s, v) ==
    IF v \in 0..65535 THEN [s EXCEPT !.address_register = v]
    ELSE IF overflow_checks THEN Panic(s)
    ELSE [s EXCEPT !.address_register = wrap16(v)]

InMemory(address) == address \in 0..(MemSize - 1)

(***************************************************************************)
(* Chip8::new                                                              *)
(***************************************************************************)
Init ==
    /\ memory = [a \in 0..(MemSize - 1) |-> 0]
    /\ stack_memory = [i \in 1..StackSize |-> 0]
    /\ registers = [r \in Reg |-> 0]
    /\ address_register = 0
    /\ keys = [k \in Reg |-> FALSE]
    /\ instruction_pointer = ProgramStart
    /\ delay_timer = 0
    /\ sound_timer = 0
    /\ display = {}
    /\ halted = FALSE
    /\ overflow_checks \in BOOLEAN
    /\ disassembly = <<>>

\* load as it would be had the reset of the sound timer been left out
load_keeps_sound_timer(s, program) ==
    LET fits == \A i \in 1..Len(program) : InMemory(ProgramStart + i - 1) IN
    IF ~fits THEN Panic(s)
    ELSE [s EXCEPT !.memory = [a \in 0..(MemSize - 1) |->
                                   IF a < SpriteBytes THEN SpriteByte(a)
                                   ELSE IF a >= ProgramStart
                                           /\ a - ProgramStart < Len(program)
                                        THEN program[a - ProgramStart + 1]
                                   ELSE 0],
                   !.address_register = 0,
                   !.instruction_pointer = ProgramStart,
                   !.delay_timer = 0,
                   !.display = {}]

(***************************************************************************)
(* Chip8::load.  The write of a program byte past the end of memory        *)
(* panics.  (MemSize is at least ProgramStart, so the glyph table fits.)   *)
(***************************************************************************)
load(s, program) ==
    LET zeroed == [a \in 0..(MemSize - 1) |-> 0]
        fits == \A i \in 1..Len(program) : InMemory(ProgramStart + i - 1)
        written == [a \in 0..(MemSize - 1) |->
                      IF a >= ProgramStart /\ a - ProgramStart < Len(program)
                      THEN program[a - ProgramStart + 1] ELSE 0]
    IN
    IF ~fits THEN Panic(s)
    ELSE [s EXCEPT !.memory = [a \in 0..(MemSize - 1) |->
                                   IF a < SpriteBytes THEN SpriteByte(a)
                                   ELSE written[a]],
                   !.address_register = 0,
                   !.instruction_pointer = ProgramStart,
                   !.delay_timer = 0,
                   !.sound_timer = 0,
                   !.display = {}]

(***************************************************************************)
(* Chip8::decrement_time and Chip8::set_pressed                            *)
(***************************************************************************)
\* the decrement wrapping below zero
decrement_time_wrapping(s) ==
    [s EXCEPT !.delay_timer = (s.delay_timer + 255) % 256]

\* checked_sub(1) is None at 0, and unwrap_or(0) then gives 0
decrement_time(s) ==
    [s EXCEPT !.delay_timer = IF s.delay_timer >= 1 THEN s.delay_timer - 1 ELSE 0]

set_pressed(s, key, pressed) ==
    IF keymap_has(key) THEN [s EXCEPT !.keys[keymap_get(key)] = pressed]
    ELSE s

\* Chip8::get_instruction: indexing past the end of memory panics
get_instruction_ok(s, address) == InMemory(address) /\ InMemory(address + 1)
get_instruction(s, address) == <<s.memory[address], s.memory[address + 1]>>

(***************************************************************************)
(* Chip8::execute, one definition per match arm.                           *)
(***************************************************************************)
exec_ClearScreen(s) == [s EXCEPT !.display = {}]

\* Vec::pop is None on an empty vector, and expect panics on None
exec_ReturnFromSubroutine(s) ==
    IF Len(s.stack_memory) = 0 THEN Panic(s)
    ELSE [s EXCEPT !.instruction_pointer = s.stack_memory[Len(s.stack_memory)],
                   !.stack_memory = SubSeq(s.stack_memory, 1, Len(s.stack_memory) - 1)]

\* the jump without the adjustment for the advance that follows every step
exec_JumpToAddress_unadjusted(s, addr) == set_instruction_pointer(s, addr)
exec_JumpToAddress(s, addr) == set_instruction_pointer(s, addr - 2)

\* the call saving the address of the instruction after it
exec_ExecSubroutine_saves_next(s, addr) ==
    set_instruction_pointer(
        [s EXCEPT !.stack_memory = Append(s.stack_memory, s.instruction_pointer + 2)],
        addr - 2)

\* Vec::push grows the vector
exec_ExecSubroutine(s, addr) ==
    set_instruction_pointer(
        [s EXCEPT !.stack_memory = Append(s.stack_memory, s.instruction_pointer)],
        addr - 2)

\* the skip taken when the condition does not hold
exec_Skip_inverted(s, condition) ==
    IF ~condition THEN set_instruction_pointer(s, s.instruction_pointer + 2) ELSE s

exec_Skip(s, condition) ==
    IF condition THEN set_instruction_pointer(s, s.instruction_pointer + 2) ELSE s

exec_SkipFollowingIfRegEq(s, reg0, value) == exec_Skip(s, s.registers[reg0] = value)
exec_SkipFollowingIfRegNeq(s, reg0, value) == exec_Skip(s, s.registers[reg0] # value)
exec_SkipFollowingIfRegEqReg(s, reg0, reg1) ==
    exec_Skip(s, s.registers[reg0] = s.registers[reg1])
exec_SkipIfNE(s, reg0, reg1) == exec_Skip(s, s.registers[reg0] # s.registers[reg1])

exec_StoreToReg(s, reg0, value) == [s EXCEPT !.registers[reg0] = value]
exec_AddToReg(s, reg0, value) ==
    [s EXCEPT !.registers[reg0] = (s.registers[reg0] + value) % 256]
exec_MoveValue(s, reg0, reg1) == [s EXCEPT !.registers[reg0] = s.registers[reg1]]
exec_OrRegister(s, reg0, reg1) ==
    [s EXCEPT !.registers[reg0] = bitor(s.registers[reg0], s.registers[reg1])]
exec_AndRegister(s, reg0, reg1) ==
    [s EXCEPT !.registers[reg0] = bitand(s.registers[reg0], s.registers[reg1])]
exec_XorRegister(s, reg0, reg1) ==
    [s EXCEPT !.registers[reg0] = bitxor(s.registers[reg0], s.registers[reg1])]

\* the addition carrying only above 256
exec_AddWithCarry_carry_above_256(s, reg0, reg1) ==
    LET sum == s.registers[reg0] + s.registers[reg1] IN
    [s EXCEPT !.registers = [[@ EXCEPT ![reg0] = sum % 256]
                                EXCEPT ![15] = IF sum > 256 THEN 1 ELSE 0]]

\* the destination register is written first, register 15 second
exec_AddWithCarry(s, reg0, reg1) ==
    LET sum == s.registers[reg0] + s.registers[reg1] IN
    [s EXCEPT !.registers = [[@ EXCEPT ![reg0] = sum % 256]
                                EXCEPT ![15] = IF sum > 255 THEN 1 ELSE 0]]

\* the subtraction with the flag polarity of the addition: 1 on a borrow
exec_SubWithCarry_borrow_polarity(s, reg0, reg1) ==
    LET diff == s.registers[reg0] - s.registers[reg1] IN
    [s EXCEPT !.registers = [[@ EXCEPT ![reg0] = wrap8(diff)]
                                EXCEPT ![15] = IF diff < 0 THEN 1 ELSE 0]]

exec_SubWithCarry(s, reg0, reg1) ==
    LET diff == s.registers[reg0] - s.registers[reg1] IN
    [s EXCEPT !.registers = [[@ EXCEPT ![reg0] = wrap8(diff)]
                                EXCEPT ![15] = IF diff < 0 THEN 0 ELSE 1]]

exec_SubWithCarry2(s, reg0, reg1) ==
    LET diff == s.registers[reg1] - s.registers[reg0] IN
    [s EXCEPT !.registers = [[@ EXCEPT ![reg0] = wrap8(diff)]
                                EXCEPT ![15] = IF diff < 0 THEN 0 ELSE 1]]

\* the shift of the destination register's own value
exec_ShiftRight_in_place(s, reg0, reg1) ==
    LET lsb == bitand(s.registers[reg0], 1) IN
    [s EXCEPT !.registers = [[@ EXCEPT ![reg0] = shr(s.registers[reg0], 1)]
                                EXCEPT ![15] = lsb]]

exec_ShiftRight(s, reg0, reg1) ==
    LET lsb == bitand(s.registers[reg1], 1) IN
    [s EXCEPT !.registers = [[@ EXCEPT ![reg0] = shr(s.registers[reg1], 1)]
                                EXCEPT ![15] = lsb]]

\* the shift writing register 15 first and the destination register second
exec_ShiftLeft_flag_first(s, reg0, reg1) ==
    LET msb == shr(s.registers[reg1], 7) IN
    [s EXCEPT !.registers = [[@ EXCEPT ![15] = msb]
                                EXCEPT ![reg0] = shl8(s.registers[reg1], 1)]]

exec_ShiftLeft(s, reg0, reg1) ==
    LET msb == shr(s.registers[reg1], 7) IN
    [s EXCEPT !.registers = [[@ EXCEPT ![reg0] = shl8(s.registers[reg1], 1)]
                                EXCEPT ![15] = msb]]

exec_StoreAddressToI(s, addr) == [s EXCEPT !.address_register = addr]

exec_JumpWithOffset(s, addr) ==
    set_instruction_pointer(s, addr + s.registers[0] - 2)

\* rnd is the byte thread_rng() yields
exec_RandWithMask(s, reg0, mask, rnd) ==
    [s EXCEPT !.registers[reg0] = bitand(rnd, mask)]

(***************************************************************************)
(* DrawSprite.  The rows are read from memory first (reading past the end  *)
(* panics).  Bit c (from the most significant) of row r goes to column     *)
(* x + c, a u8 sum, and row (y + r) mod 256; fill_rect outside the 64 x 32 *)
(* screen draws nothing.  A column sum over 255 panics with overflow       *)
(* checks and wraps without them.                                          *)
(***************************************************************************)
sprite_bit(row, c) == shr(row, 7 - c) % 2
exec_DrawSprite(s, reg0, reg1, len) ==
    LET x == s.registers[reg0]
        y == s.registers[reg1]
        sprite_address == s.address_register
        range_end == sprite_address + len
        rows == IF range_end > 65535 THEN {} ELSE 0..(len - 1)
        column(c) == IF overflow_checks THEN x + c ELSE (x + c) % 256
        cells == {rc \in rows \X (0..7) :
                     column(rc[2]) \in 0..63 /\ ((y + rc[1]) % 256) \in 0..31}
        pixel(rc) == <<column(rc[2]), (y + rc[1]) % 256>>
        lit == {pixel(rc) : rc \in {q \in cells :
                                sprite_bit(s.memory[sprite_address + q[1]], q[2]) = 1}}
        covered == {pixel(rc) : rc \in cells}
    IN
    IF range_end > 65535 /\ overflow_checks THEN Panic(s)
    ELSE IF \E r \in rows : ~InMemory(sprite_address + r) THEN Panic(s)
    ELSE IF rows # {} /\ overflow_checks /\ x + 7 > 255 THEN Panic(s)
    ELSE [s EXCEPT !.display = (s.display \ covered) \cup lit]

\* indexing keys with a register value over 15 panics
exec_SkipIfKeyPressed(s, reg0) ==
    IF s.registers[reg0] \notin Reg THEN Panic(s)
    ELSE exec_Skip(s, s.keys[s.registers[reg0]])

exec_SkipIfKeyNotPressed(s, reg0) ==
    IF s.registers[reg0] \notin Reg THEN Panic(s)
    ELSE exec_Skip(s, ~s.keys[s.registers[reg0]])

exec_ReadDelayTimer(s, reg0) == [s EXCEPT !.registers[reg0] = s.delay_timer]

\* the wait without the rewind of the instruction pointer
exec_WaitForKey_no_rewind(s, reg0) ==
    LET pressed == {k \in Reg : s.keys[k]} IN
    IF pressed # {} THEN
        [s EXCEPT !.registers[reg0] = CHOOSE k \in pressed : \A j \in pressed : k <= j]
    ELSE s

\* keys.iter().enumerate().filter(..).first(): the lowest index that is set
exec_WaitForKey(s, reg0) ==
    LET pressed == {k \in Reg : s.keys[k]} IN
    IF pressed # {} THEN
        [s EXCEPT !.registers[reg0] = CHOOSE k \in pressed : \A j \in pressed : k <= j]
    ELSE set_instruction_pointer(s, s.instruction_pointer - 2)

exec_WriteDelayTimer(s, reg0) == [s EXCEPT !.delay_timer = s.registers[reg0]]
exec_WriteSoundTimer(s, reg0) == [s EXCEPT !.sound_timer = s.registers[reg0]]

exec_IncrementIWithReg(s, reg0) ==
    set_address_register(s, s.address_register + s.registers[reg0])

exec_GetSpriteDataAddress(s, reg0) ==
    [s EXCEPT !.address_register = s.registers[reg0] * 5]

\* bytes data[1..n] written at base, base + 1, ...; a write past the end of
\* memory panics
write_bytes(s, base, data) ==
    LET n == Len(data)
        done == [a \in 0..(MemSize - 1) |->
                    IF a >= base /\ a - base < n THEN data[a - base + 1]
                    ELSE s.memory[a]]
    IN
    IF \A i \in 0..(n - 1) : InMemory(base + i) THEN [s EXCEPT !.memory = done]
    ELSE Panic(s)

\* the digits written in the order they are computed, ones first
exec_StoreBCD_ones_first(s, reg0) ==
    LET v == s.registers[reg0]
        digits == [idx \in 1..3 |-> (v \div (10 ^ (idx - 1))) % 10]
    IN write_bytes(s, s.address_register, digits)

exec_StoreBCD(s, reg0) ==
    LET v == s.registers[reg0]
        digits == [idx \in 1..3 |-> (v \div (10 ^ (idx - 1))) % 10]
        reversed == <<digits[3], digits[2], digits[1]>>
    IN write_bytes(s, s.address_register, reversed)

\* the store over registers[0..reg0], the last register left out
exec_StoreRegisters_exclusive(s, reg0) ==
    LET stored == write_bytes(s, s.address_register,
                              [i \in 1..reg0 |-> s.registers[i - 1]])
    IN
    IF stored.halted THEN stored
    ELSE set_address_register(stored, s.address_register + reg0 + 1)

exec_StoreRegisters(s, reg0) ==
    LET stored == write_bytes(s, s.address_register,
                              [i \in 1..(reg0 + 1) |-> s.registers[i - 1]])
    IN
    IF stored.halted THEN stored
    ELSE set_address_register(stored, s.address_register + reg0 + 1)

\* a read past the end of memory panics
exec_FillRegisters(s, reg0) ==
    LET filled == [r \in Reg |->
                      IF r <= reg0 THEN s.memory[s.address_register + r]
                      ELSE s.registers[r]]
    IN
    IF \A r \in 0..reg0 : InMemory(s.address_register + r) THEN
        set_address_register([s EXCEPT !.registers = filled],
                             s.address_register + reg0 + 1)
    ELSE Panic(s)

execute(s, instruction, rnd) ==
    LET i == instruction IN
    CASE i.op = "ExecSubroutineML" -> s
      [] i.op = "ClearScreen" -> exec_ClearScreen(s)
      [] i.op = "ReturnFromSubroutine" -> exec_ReturnFromSubroutine(s)
      [] i.op = "JumpToAddress" -> exec_JumpToAddress(s, i.addr)
      [] i.op = "ExecSubroutine" -> exec_ExecSubroutine(s, i.addr)
      [] i.op = "SkipFollowingIfRegEq" -> exec_SkipFollowingIfRegEq(s, i.reg0, i.value)
      [] i.op = "SkipFollowingIfRegNeq" -> exec_SkipFollowingIfRegNeq(s, i.reg0, i.value)
      [] i.op = "SkipFollowingIfRegEqReg" -> exec_SkipFollowingIfRegEqReg(s, i.reg0, i.reg1)
      [] i.op = "StoreToReg" -> exec_StoreToReg(s, i.reg0, i.value)
      [] i.op = "AddToReg" -> exec_AddToReg(s, i.reg0, i.value)
      [] i.op = "MoveValue" -> exec_MoveValue(s, i.reg0, i.reg1)
      [] i.op = "OrRegister" -> exec_OrRegister(s, i.reg0, i.reg1)
      [] i.op = "AndRegister" -> exec_AndRegister(s, i.reg0, i.reg1)
      [] i.op = "XorRegister" -> exec_XorRegister(s, i.reg0, i.reg1)
      [] i.op = "AddWithCarry" -> exec_AddWithCarry(s, i.reg0, i.reg1)
      [] i.op = "SubWithCarry" -> exec_SubWithCarry(s, i.reg0, i.reg1)
      [] i.op = "ShiftRight" -> exec_ShiftRight(s, i.reg0, i.reg1)
      [] i.op = "SubWithCarry2" -> exec_SubWithCarry2(s, i.reg0, i.reg1)
      [] i.op = "ShiftLeft" -> exec_ShiftLeft(s, i.reg0, i.reg1)
      [] i.op = "SkipIfNE" -> exec_SkipIfNE(s, i.reg0, i.reg1)
      [] i.op = "StoreAddressToI" -> exec_StoreAddressToI(s, i.addr)
      [] i.op = "JumpWithOffset" -> exec_JumpWithOffset(s, i.addr)
      [] i.op = "RandWithMask" -> exec_RandWithMask(s, i.reg0, i.value, rnd)
      [] i.op = "DrawSprite" -> exec_DrawSprite(s, i.reg0, i.reg1, i.value)
      [] i.op = "SkipIfKeyPressed" -> exec_SkipIfKeyPressed(s, i.reg0)
      [] i.op = "SkipIfKeyNotPressed" -> exec_SkipIfKeyNotPressed(s, i.reg0)
      [] i.op = "ReadDelayTimer" -> exec_ReadDelayTimer(s, i.reg0)
      [] i.op = "WaitForKey" -> exec_WaitForKey(s, i.reg0)
      [] i.op = "WriteDelayTimer" -> exec_WriteDelayTimer(s, i.reg0)
      [] i.op = "WriteSoundTimer" -> exec_WriteSoundTimer(s, i.reg0)
      [] i.op = "IncrementIWithReg" -> exec_IncrementIWithReg(s, i.reg0)
      [] i.op = "GetSpriteDataAddress" -> exec_GetSpriteDataAddress(s, i.reg0)
      [] i.op = "StoreBCD" -> exec_StoreBCD(s, i.reg0)
      [] i.op = "StoreRegisters" -> exec_StoreRegisters(s, i.reg0)
      [] i.op = "FillRegisters" -> exec_FillRegisters(s, i.reg0)

\* tick advancing by one byte instead of one instruction
tick_advances_one(s, rnd) ==
    IF ~get_instruction_ok(s, s.instruction_pointer) THEN Panic(s)
    ELSE
        LET to_execute == get_instruction(s, s.instruction_pointer)
            decoded == decode(to_execute)
            executed == IF decoded.op = "None" THEN s
                        ELSE execute(s, decoded, rnd)
        IN
        IF executed.halted THEN executed
        ELSE set_instruction_pointer(executed, executed.instruction_pointer + 1)

\* tick treating an unknown instruction as fatal
tick_unknown_panics(s, rnd) ==
    IF ~get_instruction_ok(s, s.instruction_pointer) THEN Panic(s)
    ELSE
        LET to_execute == get_instruction(s, s.instruction_pointer)
            decoded == decode(to_execute)
            executed == IF decoded.op = "None" THEN Panic(s)
                        ELSE execute(s, decoded, rnd)
        IN
        IF executed.halted THEN executed
        ELSE set_instruction_pointer(executed, executed.instruction_pointer + 2)

(***************************************************************************)
(* Chip8::tick: fetch, decode, execute, then instruction_pointer += 2.     *)
(* A decode failure is logged and nothing is executed.                     *)
(***************************************************************************)
tick(s, rnd) ==
    IF ~get_instruction_ok(s, s.instruction_pointer) THEN Panic(s)
    ELSE
        LET to_execute == get_instruction(s, s.instruction_pointer)
            decoded == decode(to_execute)
            executed == IF decoded.op = "None" THEN s
                        ELSE execute(s, decoded, rnd)
        IN
        IF executed.halted THEN executed
        ELSE set_instruction_pointer(executed, executed.instruction_pointer + 2)

(***************************************************************************)
(* The host's inputs.  Programs are the program images the host loads:     *)
(*   ZeroProgram     all zero bytes                                        *)
(*   ReturnProgram   200: return                                           *)
(*   JumpProgram     200: V0 := 4    202: jump 204 + V0   204: clear screen *)
(*                   206: 0000       208: 1000   20A: 5121 (neither decodes)*)
(*                   20C: jump 20E   20E: jump 20E                         *)
(*   MiscProgram     200: V0 := 3    202: delay := V0     204: sound := V0 *)
(*                   206: I := glyph V0   208: draw V0, V0, 5 rows         *)
(*                   20A: I := 20E   20C: store V0 at I                    *)
(*   LongProgram     200: jump 200, then zeros: one byte more than fits    *)
(* load leaves stack_memory as it is, so a program that calls is run where *)
(* the machine is loaded once (CallProgram below).                         *)
(***************************************************************************)
ZeroProgram == <<0, 0, 0, 0>>
ReturnProgram == <<0, 238>>
JumpProgram == <<96, 4, 178, 4, 0, 224, 0, 0, 16, 0, 81, 33, 18, 14, 18, 14>>
MiscProgram == <<96, 3, 240, 21, 240, 24, 240, 41, 208, 5, 162, 14, 240, 85>>
LongProgram == [i \in 1..(MemSize - ProgramStart + 1) |-> IF i = 1 THEN 18 ELSE 0]

Programs == {ZeroProgram, ReturnProgram, JumpProgram, MiscProgram, LongProgram}

\* the physical keys the host reports: a mapped key and one that is not
InputKeys == {"W", "Escape"}

\* the values thread_rng() can yield for the instruction about to execute
RandomBytes(s) ==
    IF /\ get_instruction_ok(s, s.instruction_pointer)
       /\ decode(get_instruction(s, s.instruction_pointer)).op = "RandWithMask"
    THEN Byte ELSE {0}

\* the machine becomes t (the fields cheapest to compare come first)
Becomes(t) ==
    /\ instruction_pointer' = t.instruction_pointer
    /\ halted' = t.halted
    /\ address_register' = t.address_register
    /\ delay_timer' = t.delay_timer
    /\ sound_timer' = t.sound_timer
    /\ stack_memory' = t.stack_memory
    /\ registers' = t.registers
    /\ keys' = t.keys
    /\ display' = t.display
    /\ memory' = t.memory
    /\ UNCHANGED <<overflow_checks, disassembly>>

Load(program) == ~halted /\ \E t \in {load(Machine, program)} : Becomes(t)

Tick ==
    /\ ~halted
    /\ \E rnd \in RandomBytes(Machine) : \E t \in {tick(Machine, rnd)} : Becomes(t)

DecrementTime == ~halted /\ \E t \in {decrement_time(Machine)} : Becomes(t)

SetPressed(key, pressed) ==
    ~halted /\ \E t \in {set_pressed(Machine, key, pressed)} : Becomes(t)

Next ==
    \/ \E program \in Programs : Load(program)
    \/ Tick
    \/ DecrementTime
    \/ \E key \in InputKeys, pressed \in BOOLEAN : SetPressed(key, pressed)

Spec == Init /\ [][Next]_vars

TypeOK ==
    /\ memory \in [0..(MemSize - 1) -> Byte]
    /\ stack_memory \in Seq(0..65535)
    /\ instruction_pointer \in 0..65535
    /\ registers \in [Reg -> Byte]
    /\ keys \in [Reg -> BOOLEAN]
    /\ address_register \in 0..65535
    /\ delay_timer \in Byte
    /\ sound_timer \in Byte
    /\ display \subseteq (0..63) \X (0..31)
    /\ halted \in BOOLEAN
    /\ overflow_checks \in BOOLEAN

(***************************************************************************)
(* Chip8::disassemble: decode applied to every second address from         *)
(* ProgramStart to the end of memory.  With an odd memory size the last    *)
(* slot's second byte lies past the end of memory and reading it panics.   *)
(***************************************************************************)
disassemble_slots == (MemSize - ProgramStart + 1) \div 2
disassemble_ok(s) ==
    \A n \in 1..disassemble_slots :
        get_instruction_ok(s, ProgramStart + 2 * (n - 1))
disassemble(s) ==
    [n \in 1..disassemble_slots |->
        decode(get_instruction(s, ProgramStart + 2 * (n - 1)))]

Disassemble ==
    /\ ~halted
    /\ disassembly = <<>>
    /\ IF disassemble_ok(Machine)
       THEN disassembly' = disassemble(Machine) /\ UNCHANGED halted
       ELSE halted' = TRUE /\ UNCHANGED disassembly
    /\ UNCHANGED <<memory, stack_memory, instruction_pointer, registers, keys,
                   address_register, delay_timer, sound_timer, display,
                   overflow_checks>>

(***************************************************************************)
(* The decoder on its own: every raw instruction, as a two-byte program    *)
(* loaded into a new machine and disassembled.                             *)
(***************************************************************************)
RawInstructions == Byte \X Byte

InitDecode ==
    \E raw \in RawInstructions :
        \E t \in {load(NewMachine, <<raw[1], raw[2]>>)} :
            /\ memory = t.memory
            /\ stack_memory = t.stack_memory
            /\ instruction_pointer = t.instruction_pointer
            /\ registers = t.registers
            /\ keys = t.keys
            /\ address_register = t.address_register
            /\ delay_timer = t.delay_timer
            /\ sound_timer = t.sound_timer
            /\ display = t.display
            /\ halted = t.halted
            /\ overflow_checks = FALSE
            /\ disassembly = <<>>

NextDecode == Disassemble

SpecDecode == InitDecode /\ [][NextDecode]_vars

(***************************************************************************)
(* The host of main.rs with one program: new, load, then the loop of       *)
(* set_pressed, tick and decrement_time.                                   *)
(*   WaitProgram     200: V0 := 3        202: delay := V0                  *)
(*                   204: V2 := key (wait)   206: jump 200                 *)
(*   GlyphProgram    200: V0 := 7        202: I := glyph V0                *)
(*                   204: BCD of V0 at I     206: store V0 at I            *)
(***************************************************************************)
WaitProgram == <<96, 3, 240, 21, 242, 10, 18, 0>>
GlyphProgram == <<96, 7, 240, 41, 240, 51, 240, 85>>
HostPrograms == {WaitProgram, GlyphProgram}

\* the physical keys the host reports: W and Key1 (keypad flags 5 and 1) and
\* C, which the key mapping lists twice
HostKeys == {"W", "Key1", "C"}

\* the machine is s, as built with overflow checks or without
Starts(s) ==
    /\ memory = s.memory
    /\ stack_memory = s.stack_memory
    /\ instruction_pointer = s.instruction_pointer
    /\ registers = s.registers
    /\ keys = s.keys
    /\ address_register = s.address_register
    /\ delay_timer = s.delay_timer
    /\ sound_timer = s.sound_timer
    /\ display = s.display
    /\ halted = s.halted
    /\ overflow_checks \in BOOLEAN
    /\ disassembly = <<>>

InitHost == \E program \in HostPrograms : Starts(load(NewMachine, program))

NextHost ==
    \/ Tick
    \/ DecrementTime
    \/ \E key \in HostKeys, pressed \in BOOLEAN : SetPressed(key, pressed)

SpecHost == InitHost /\ [][NextHost]_vars

(***************************************************************************)
(* A program running while the host reports no key: new, load, then tick   *)
(* after tick.  (None of these programs sets the delay timer, so the       *)
(* host's decrement_time changes nothing.)  Register values come from the  *)
(* random instruction CXNN, which yields every byte masked with NN.        *)
(*                                                                         *)
(*   ArithProgram(sel), the class-8 instruction 8XYsel applied to          *)
(*       V0 in {FE, FF, 00, 01, 7E, 7F, 80, 81}, V1 in {00..03, 80..83},   *)
(*       VF in {0..3}:                                                     *)
(*                   200: V0 := rnd & 83   202: V0 += FE                   *)
(*                   204: V1 := rnd & 83   206: VF := rnd & 03             *)
(*                   208: 801sel  20A: 8F1sel  20C: 80Fsel  20E: 811sel    *)
(*   SkipProgram     200: V2 := rnd & 13   202: V3 := rnd & 13             *)
(*                   204: skip if V2 # 12  206: skip if V2 = 12            *)
(*                   208: skip if V2 = 11  20A: skip if V2 = V3            *)
(*                   20C: skip if V2 # V3                                  *)
(*   BulkProgram     200: V0 := rnd & 0F   202: V1 := rnd & F0             *)
(*                   204: V2 := 10         206: I := glyph V2 (050)        *)
(*                   208: store V0..V1     20A: load V0..V1 (zeros at 052) *)
(*                   20C: I := glyph V2    20E: load V0..V1                *)
(*   FaultProgram(b1, b2)                                                  *)
(*                   200: I := the last byte of memory   202: b1 b2        *)
(*   FarJumpProgram  200: jump FFE                                         *)
(*   BcdProgram      200: V0 := rnd        202: V1 := 10                   *)
(*                   204: I := glyph V1 (050)    206: BCD of V0 at I       *)
(*   DrawProgram, the glyph 0 drawn at x in {FA, FC, FE, 00, 3A, 3C, 3E,   *)
(*       40} and y in {FE, 02, 1E, 22}:                                   *)
(*                   200: V0 := rnd & 46   202: V0 += FA                   *)
(*                   204: V1 := rnd & 24   206: V1 += FE                   *)
(*                   208: draw V0, V1, 5 rows    20A: the same again       *)
(*                   20C: I := glyph V1    20E: draw V0, V1, 5 rows        *)
(*   WrapProgram     200: V0 := FF         202: I += V0    204: V1 += 1    *)
(*                   206: skip if V1 = 0   208: jump 202   20A: I += V0    *)
(*                   20C: draw V1, V1, 15 rows   (I is FFFF at 20C)        *)
(*   CallProgram     200: call 206   202: jump 202     204: 0000           *)
(*                   206: call 20A   208: return   20A: return             *)
(***************************************************************************)
ArithSelectors == {4, 5, 6, 7, 14}
ArithProgram(sel) ==
    <<192, 131, 112, 254, 193, 131, 207, 3,
      128, 16 + sel, 143, 16 + sel, 128, 240 + sel, 129, 16 + sel>>
SkipProgram == <<194, 19, 195, 19, 66, 18, 50, 18, 50, 17, 82, 48, 146, 48>>
BulkProgram == <<192, 15, 193, 240, 98, 16, 242, 41, 241, 85, 241, 101, 242, 41,
                 241, 101>>
FaultInstructions == {<<240, 51>>, <<241, 85>>, <<241, 101>>, <<208, 2>>}
FaultProgram(b1, b2) ==
    <<160 + ((MemSize - 1) \div 256), (MemSize - 1) % 256, b1, b2>>
BcdProgram == <<192, 255, 97, 16, 241, 41, 240, 51>>
DrawProgram == <<192, 70, 112, 250, 193, 36, 113, 254, 208, 21, 208, 21,
                 241, 41, 208, 21>>
FarJumpProgram == <<31, 254>>
WrapProgram == <<96, 255, 240, 30, 113, 1, 49, 0, 18, 2, 240, 30, 209, 31>>
CallProgram == <<34, 6, 18, 2, 0, 0, 34, 10, 0, 238, 0, 238>>

RunPrograms ==
    {ArithProgram(sel) : sel \in ArithSelectors}
        \cup {FaultProgram(f[1], f[2]) : f \in FaultInstructions}
        \cup {SkipProgram, BulkProgram, BcdProgram, DrawProgram, FarJumpProgram,
              WrapProgram, CallProgram}

InitRun == \E program \in RunPrograms : Starts(load(NewMachine, program))

NextRun == Tick

SpecRun == InitRun /\ [][NextRun]_vars

(***************************************************************************)
(* Notions the properties below are stated with.                           *)
(***************************************************************************)
\* the two bytes a step from the current state fetches, and what they decode to
Fetched == get_instruction(Machine, instruction_pointer)
FetchOk == get_instruction_ok(Machine, instruction_pointer)
Decoded == decode(Fetched)

\* The return addresses calls have saved and returns have not yet popped.
\* Chip8::new creates the stack vector holding StackSize zeros, and a call
\* never saves 0 (see InstructionPointerPositive), so these are the nonzero
\* entries of the vector.
IsSaved(a) == a # 0
SavedReturnAddresses == SelectSeq(stack_memory, IsSaved)
InstructionPointerPositive == instruction_pointer >= 2

\* memory from ProgramStart on holds program and zeros after it
Loaded(program) ==
    \A a \in ProgramStart..(MemSize - 1) :
        memory[a] = IF a - ProgramStart < Len(program)
                    THEN program[a - ProgramStart + 1] ELSE 0
Fits(program) == Len(program) <= MemSize - ProgramStart
\* a step that is a successful load of program (which leaves it loaded)
LoadStep(program) == Fits(program) /\ Loaded(program)' /\ Load(program)

\* everything but the instruction pointer
AllButPointer ==
    <<memory, stack_memory, registers, keys, address_register, delay_timer,
      sound_timer, display, halted, overflow_checks, disassembly>>

(***************************************************************************)
(* C1: after a load in any reachable state, all sixteen registers are 0    *)
(* and the call stack holds no saved return address.                       *)
(* Chip8::load assigns neither registers nor stack_memory.                 *)
(***************************************************************************)
C1_LoadClearsRegistersAndStack ==
    [][\A program \in Programs :
          LoadStep(program) =>
              /\ registers' = [r \in Reg |-> 0]
              /\ SavedReturnAddresses' = <<>>]_vars

(***************************************************************************)
(* C2: after a load of a program that fits, the instruction pointer is     *)
(* ProgramStart, both timers are 0, no pixel is lit, bytes [0, 80) are the *)
(* glyph table, the program follows verbatim from ProgramStart, and every  *)
(* other byte is 0.                                                        *)
(***************************************************************************)
C2_ExpectedMemory ==
    [program \in Programs |->
        [a \in 0..(MemSize - 1) |->
            IF a < 80 THEN SPRITES[(a \div 5) + 1][(a % 5) + 1]
            ELSE IF a >= ProgramStart /\ a < ProgramStart + Len(program)
                 THEN program[a - ProgramStart + 1]
            ELSE 0]]

C2_LoadPost(program) ==
    /\ instruction_pointer' = ProgramStart
    /\ delay_timer' = 0
    /\ sound_timer' = 0
    /\ display' = {}
    /\ ~halted'
    /\ memory' = C2_ExpectedMemory[program]

C2_LoadResetsMachine ==
    [][\A program \in Programs :
          LoadStep(program) => C2_LoadPost(program)]_vars

\* MiscProgram loaded again after it ran: register 0 still holds the 3 it
\* wrote, while the timers it set, the sprite it drew and the byte it stored
\* are gone
C2_Witness ==
    /\ Loaded(MiscProgram)
    /\ instruction_pointer = ProgramStart
    /\ registers[0] = 3
    /\ display = {} /\ delay_timer = 0 /\ sound_timer = 0
    /\ ~halted

(***************************************************************************)
(* C3: a return executed while no call is outstanding halts the machine.   *)
(* The stack vector is created holding StackSize zeros, so the return pops *)
(* a 0 and execution goes on at address 2.                                 *)
(***************************************************************************)
C3_ReturnWithoutCallHalts ==
    [][(/\ FetchOk
        /\ Decoded.op = "ReturnFromSubroutine"
        /\ SavedReturnAddresses = <<>>
        /\ Tick) => halted']_vars

(***************************************************************************)
(* C4: the call stack never holds more saved return addresses than the     *)
(* stack capacity the machine was constructed with.                        *)
(* Vec::push grows the vector without limit.                               *)
(***************************************************************************)
C4_StackWithinCapacity == Len(SavedReturnAddresses) <= StackSize

(***************************************************************************)
(* C5: every raw instruction of class 1, 2, A or B decodes to jump, call,  *)
(* set-address-register or jump-with-offset with the address operand       *)
(* (low nibble of byte 0) * 256 + byte 1.                                  *)
(* The decoder accepts only first bytes x2..xF in these classes.           *)
(***************************************************************************)
AddressClassName(class) ==
    CASE class = 1 -> "JumpToAddress"
      [] class = 2 -> "ExecSubroutine"
      [] class = 10 -> "StoreAddressToI"
      [] class = 11 -> "JumpWithOffset"

C5_AddressClassesDecode ==
    disassembly # <<>> =>
        LET raw == get_instruction(Machine, ProgramStart)
            class == raw[1] \div 16
        IN class \in {1, 2, 10, 11} =>
              /\ disassembly[1].op = AddressClassName(class)
              /\ disassembly[1].addr = (raw[1] % 16) * 256 + raw[2]

(***************************************************************************)
(* C6: in class 0, 00E0 is clear-screen, 00EE is return, and every other   *)
(* raw instruction, 0000 included, decodes to the machine-language call    *)
(* with its address operand.                                               *)
(* The decoder rejects every first byte 00 (other than 00E0, 00EE) and 01. *)
(***************************************************************************)
C6_ClassZeroDecodes ==
    disassembly # <<>> =>
        LET raw == get_instruction(Machine, ProgramStart) IN
        raw[1] \div 16 = 0 =>
            IF raw = <<0, 224>> THEN disassembly[1].op = "ClearScreen"
            ELSE IF raw = <<0, 238>> THEN disassembly[1].op = "ReturnFromSubroutine"
            ELSE /\ disassembly[1].op = "ExecSubroutineML"
                 /\ disassembly[1].addr = (raw[1] % 16) * 256 + raw[2]

\* the 12-bit operand NNN of the raw instruction a step fetches
FetchedNNN == (Fetched[1] % 16) * 256 + Fetched[2]

(***************************************************************************)
(* C7: with an all-zero program loaded, every step from a program address  *)
(* inside memory finds the pointer at ProgramStart + 2N, leaves it at      *)
(* ProgramStart + 2(N + 1), and changes nothing else: N consecutive steps  *)
(* leave the pointer at ProgramStart + 2N and all other state as it was.   *)
(***************************************************************************)
C7_ZeroProgramSteps ==
    [][(/\ Loaded(ZeroProgram)
        /\ instruction_pointer >= ProgramStart
        /\ FetchOk
        /\ Tick) =>
           /\ \E N \in 0..(ProgramSlots - 1) :
                 /\ instruction_pointer = ProgramStart + 2 * N
                 /\ instruction_pointer' = ProgramStart + 2 * (N + 1)
           /\ UNCHANGED AllButPointer]_vars

\* the all-zero program stepped to the end of memory, loaded into a machine
\* whose register 0 an earlier program had set and with a key held down
C7_Witness ==
    /\ Loaded(ZeroProgram)
    /\ instruction_pointer = ProgramStart + 2 * ProgramSlots
    /\ registers[0] = 4
    /\ keys[5]
    /\ ~halted

(***************************************************************************)
(* C8: a step whose two fetched bytes do not decode advances the           *)
(* instruction pointer by exactly 2 and changes nothing else; the machine  *)
(* does not halt.                                                          *)
(***************************************************************************)
C8_UnknownInstructionIsNoOp ==
    [][(/\ FetchOk
        /\ Decoded.op = "None"
        /\ Tick) =>
           /\ instruction_pointer' = instruction_pointer + 2
           /\ ~halted'
           /\ UNCHANGED AllButPointer]_vars

\* JumpProgram past its two undecodable instructions at 208 and 20A
C8_Witness ==
    /\ Loaded(JumpProgram)
    /\ instruction_pointer = ProgramStart + 12
    /\ ~halted

(***************************************************************************)
(* C9: a call executed at P with target T appends P to the call stack and  *)
(* leaves the pointer at T; a return pops the last entry P of the stack    *)
(* and leaves the pointer at P + 2; neither changes anything else.  So the *)
(* return that pops a call's entry resumes after the call with the stack   *)
(* as it was before the call, and nested calls return last-in-first-out.   *)
(***************************************************************************)
C9_CallPushesReturnPops ==
    [][/\ (/\ FetchOk
           /\ Decoded.op = "ExecSubroutine"
           /\ Tick) =>
              /\ stack_memory' = Append(stack_memory, instruction_pointer)
              /\ instruction_pointer' = FetchedNNN
              /\ UNCHANGED <<memory, registers, keys, address_register, delay_timer,
                             sound_timer, display, halted>>
       /\ (/\ FetchOk
           /\ Decoded.op = "ReturnFromSubroutine"
           /\ stack_memory # <<>>
           /\ Tick) =>
              /\ instruction_pointer' = stack_memory[Len(stack_memory)] + 2
              /\ stack_memory' = SubSeq(stack_memory, 1, Len(stack_memory) - 1)
              /\ UNCHANGED <<memory, registers, keys, address_register, delay_timer,
                             sound_timer, display, halted>>]_vars

\* CallProgram back at 202 after both nested calls returned, the stack as
\* it was before the first call
C9_Witness ==
    /\ Loaded(CallProgram)
    /\ instruction_pointer = ProgramStart + 2
    /\ SavedReturnAddresses = <<>>
    /\ ~halted

(***************************************************************************)
(* C10: after a step executing jump NNN the pointer is NNN; after a step   *)
(* executing jump-with-offset NNN it is NNN + register 0; neither changes  *)
(* anything else.                                                          *)
(***************************************************************************)
C10_JumpsLandOnTarget ==
    [][/\ (/\ FetchOk
           /\ Decoded.op = "JumpToAddress"
           /\ Tick) =>
              /\ instruction_pointer' = FetchedNNN
              /\ UNCHANGED AllButPointer
       /\ (/\ FetchOk
           /\ Decoded.op = "JumpWithOffset"
           /\ Tick) =>
              /\ instruction_pointer' = FetchedNNN + registers[0]
              /\ UNCHANGED AllButPointer]_vars

\* JumpProgram at 20E: reached only through jump 204 + V0 (to 208, with
\* V0 = 4) and then jump 20E
C10_Witness ==
    /\ Loaded(JumpProgram)
    /\ instruction_pointer = ProgramStart + 14
    /\ registers[0] = 4
    /\ ~halted

(***************************************************************************)
(* C11: at a wait-for-key instruction, while no keypad flag is set, a step *)
(* and a timer tick each leave the instruction pointer at the wait         *)
(* instruction and change no register, memory byte, stack entry or the     *)
(* address register; once a flag is set, one step writes the lowest set    *)
(* index into the destination register and advances the pointer by 2.      *)
(***************************************************************************)
PressedKeys == {k \in Reg : keys[k]}
LowestPressedKey == CHOOSE k \in PressedKeys : \A j \in PressedKeys : k <= j

C11_WaitForKey ==
    [][(FetchOk /\ Decoded.op = "WaitForKey") =>
          /\ (PressedKeys = {} /\ (Tick \/ DecrementTime)) =>
                /\ instruction_pointer' = instruction_pointer
                /\ UNCHANGED <<registers, memory, stack_memory, address_register>>
          /\ (PressedKeys # {} /\ Tick) =>
                /\ registers' = [registers EXCEPT ![Decoded.reg0] = LowestPressedKey]
                /\ instruction_pointer' = instruction_pointer + 2
                /\ UNCHANGED <<memory, stack_memory, address_register>>]_vars

\* WaitProgram past its wait: the timer ran down from 3 to 1 meanwhile, and
\* of the two keys held the lower one was reported
C11_Witness ==
    /\ Loaded(WaitProgram)
    /\ instruction_pointer = ProgramStart + 6
    /\ keys[1] /\ keys[5]
    /\ registers[2] = 1
    /\ delay_timer = 1
    /\ ~halted

\* the operand fields of the raw instruction a step fetches
FetchedClass == Fetched[1] \div 16
FetchedX == Fetched[1] % 16
FetchedY == Fetched[2] \div 16
FetchedNN == Fetched[2]

(***************************************************************************)
(* C12: a step executing one of the four conditional skips (3XNN: VX = NN, *)
(* 4XNN: VX # NN, 5XY0: VX = VY, 9XY0: VX # VY) advances the instruction   *)
(* pointer by 4 when its condition holds and by 2 when it does not, and    *)
(* changes nothing else.                                                   *)
(***************************************************************************)
SkipOps == {"SkipFollowingIfRegEq", "SkipFollowingIfRegNeq",
            "SkipFollowingIfRegEqReg", "SkipIfNE"}
SkipConditionHolds ==
    CASE FetchedClass = 3 -> registers[FetchedX] = FetchedNN
      [] FetchedClass = 4 -> registers[FetchedX] # FetchedNN
      [] FetchedClass = 5 -> registers[FetchedX] = registers[FetchedY]
      [] FetchedClass = 9 -> registers[FetchedX] # registers[FetchedY]

C12_ConditionalSkips ==
    [][(/\ FetchOk
        /\ Decoded.op \in SkipOps
        /\ Tick) =>
           /\ instruction_pointer' =
                 instruction_pointer + (IF SkipConditionHolds THEN 4 ELSE 2)
           /\ UNCHANGED AllButPointer]_vars

\* SkipProgram run to the end of memory with V2 = 11 and V3 = 12: 4212 skipped
\* (V2 # 12), 3211 skipped (V2 = 11) and 9230 skipped (V2 # V3)
C12_Witness ==
    /\ Loaded(SkipProgram)
    /\ instruction_pointer = ProgramStart + 16
    /\ registers[2] = 17
    /\ registers[3] = 18
    /\ ~halted

\* everything but the instruction pointer and the registers
AllButPointerAndRegisters ==
    <<memory, stack_memory, keys, address_register, delay_timer, sound_timer,
      display, halted, overflow_checks, disassembly>>

(***************************************************************************)
(* C13: after a step executing add-with-carry, subtract-with-carry, the    *)
(* reversed subtract, shift-right or shift-left, register 15 is 0 or 1,    *)
(* whichever registers the instruction names (register 15 as destination   *)
(* included) and whatever register 15 held before.                         *)
(***************************************************************************)
FlagOps == {"AddWithCarry", "SubWithCarry", "SubWithCarry2", "ShiftRight",
            "ShiftLeft"}

C13_FlagIsZeroOrOne ==
    [][(/\ FetchOk
        /\ Decoded.op \in FlagOps
        /\ Tick) => registers'[15] \in {0, 1}]_vars

\* ArithProgram(14) after 8F1E, the shift-left of V1 = 83 into register 15:
\* the shifted value 06 went to register 15 first and the flag 1 replaced it
C13_Witness ==
    /\ Loaded(ArithProgram(14))
    /\ instruction_pointer = ProgramStart + 12
    /\ registers[1] = 131
    /\ registers[15] = 1
    /\ ~halted

(***************************************************************************)
(* C14: a step executing add-with-carry on registers X and Y, X not 15,    *)
(* sets register X to (VX + VY) mod 256 and register 15 to 1 when          *)
(* VX + VY > 255 and to 0 otherwise (FF + 01 gives 00 and flag 1); it      *)
(* changes no other register and, but for the pointer's advance by 2,      *)
(* nothing else.                                                           *)
(***************************************************************************)
C14_AddWithCarry ==
    [][(/\ FetchOk
        /\ Decoded.op = "AddWithCarry"
        /\ FetchedX # 15
        /\ Tick) =>
           LET sum == registers[FetchedX] + registers[FetchedY] IN
           /\ registers' = [r \in Reg |->
                               IF r = 15 THEN (IF sum > 255 THEN 1 ELSE 0)
                               ELSE IF r = FetchedX THEN sum % 256
                               ELSE registers[r]]
           /\ instruction_pointer' = instruction_pointer + 2
           /\ UNCHANGED AllButPointerAndRegisters]_vars

\* ArithProgram(4) after 8014 with V1 = 01 and V0 = 00 now: V0 was FF
C14_Witness ==
    /\ Loaded(ArithProgram(4))
    /\ instruction_pointer = ProgramStart + 10
    /\ registers[0] = 0
    /\ registers[1] = 1
    /\ registers[15] = 1
    /\ ~halted

(***************************************************************************)
(* C15: a step executing subtract-with-carry on registers X and Y, X not   *)
(* 15, sets register X to (VX - VY) mod 256 and register 15 to 1 when      *)
(* VX >= VY (no borrow) and to 0 otherwise; the reversed subtract sets     *)
(* register X to (VY - VX) mod 256 and register 15 to 1 when VY >= VX and  *)
(* to 0 otherwise (01 - 02 gives flag 0).                                  *)
(***************************************************************************)
C15_Difference(minuend, subtrahend) ==
    [r \in Reg |->
        IF r = 15 THEN (IF minuend >= subtrahend THEN 1 ELSE 0)
        ELSE IF r = FetchedX THEN (minuend - subtrahend + 256) % 256
        ELSE registers[r]]

C15_SubtractWithCarry ==
    [][/\ (/\ FetchOk
           /\ Decoded.op = "SubWithCarry"
           /\ FetchedX # 15
           /\ Tick) =>
              /\ registers' = C15_Difference(registers[FetchedX], registers[FetchedY])
              /\ instruction_pointer' = instruction_pointer + 2
              /\ UNCHANGED AllButPointerAndRegisters
       /\ (/\ FetchOk
           /\ Decoded.op = "SubWithCarry2"
           /\ FetchedX # 15
           /\ Tick) =>
              /\ registers' = C15_Difference(registers[FetchedY], registers[FetchedX])
              /\ instruction_pointer' = instruction_pointer + 2
              /\ UNCHANGED AllButPointerAndRegisters]_vars

\* ArithProgram(5) after 8015 with V1 = 02 and V0 = FF now: V0 was 01, and
\* the borrow left flag 0
C15_Witness ==
    /\ Loaded(ArithProgram(5))
    /\ instruction_pointer = ProgramStart + 10
    /\ registers[0] = 255
    /\ registers[1] = 2
    /\ registers[15] = 0
    /\ ~halted

(***************************************************************************)
(* C16: with the bytes A .. A + N inside memory (A the address register),  *)
(* a step executing the bulk store of registers 0..N writes                *)
(* memory[A + i] = register i for every i in 0..N and changes no register  *)
(* and no other byte; a step executing the bulk load sets register i to    *)
(* memory[A + i] for every i in 0..N and changes no memory and no register *)
(* above N; each leaves the address register at A + N + 1; and the load    *)
(* from A into a zeroed register file after the store reproduces           *)
(* registers 0..N.                                                         *)
(***************************************************************************)
BulkInMemory == \A i \in 0..FetchedX : InMemory(address_register + i)

\* the machine after the store, its registers zeroed and its address
\* register set back to A, and then the load
C16_StoredThenLoaded ==
    LET stored == exec_StoreRegisters(Machine, FetchedX)
        zeroed == [stored EXCEPT !.registers = [r \in Reg |-> 0],
                                 !.address_register = address_register]
    IN exec_FillRegisters(zeroed, FetchedX)

C16_BulkStoreAndLoad ==
    [][/\ (/\ FetchOk
           /\ Decoded.op = "StoreRegisters"
           /\ BulkInMemory
           /\ Tick) =>
              /\ memory' = [a \in 0..(MemSize - 1) |->
                               IF a - address_register \in 0..FetchedX
                               THEN registers[a - address_register]
                               ELSE memory[a]]
              /\ registers' = registers
              /\ address_register' = address_register + FetchedX + 1
              /\ \A i \in 0..FetchedX :
                    C16_StoredThenLoaded.registers[i] = registers[i]
              /\ C16_StoredThenLoaded.address_register
                    = address_register + FetchedX + 1
       /\ (/\ FetchOk
           /\ Decoded.op = "FillRegisters"
           /\ BulkInMemory
           /\ Tick) =>
              /\ registers' = [r \in Reg |->
                                  IF r <= FetchedX THEN memory[address_register + r]
                                  ELSE registers[r]]
              /\ memory' = memory
              /\ address_register' = address_register + FetchedX + 1]_vars

\* BulkProgram at its end: V0 = 0F and V1 = F0 were stored at addresses 80
\* and 81 (hex 050, 051), both registers were zeroed (loaded from the zeros at
\* 82 and 83), and the load from 80 brought the two values back; V2 kept its
\* 10 (hex) throughout
C16_Witness ==
    /\ Loaded(BulkProgram)
    /\ instruction_pointer = ProgramStart + 16
    /\ registers[0] = 15 /\ registers[1] = 240 /\ registers[2] = 16
    /\ memory[80] = 15 /\ memory[81] = 240
    /\ address_register = 82
    /\ ~halted

(***************************************************************************)
(* C17: a timer tick takes 1 off the delay timer when it is above 0 and    *)
(* leaves it at 0 when it is 0, and changes nothing else; a step changes   *)
(* the delay timer only when it executes the write-delay-timer             *)
(* instruction, which sets it to the named register.  So the timer is the  *)
(* last value written less the number of ticks since, and at least 0.      *)
(***************************************************************************)
AllButDelayTimer ==
    <<memory, stack_memory, instruction_pointer, registers, keys,
      address_register, sound_timer, display, halted, overflow_checks,
      disassembly>>

C17_DelayTimer ==
    [][/\ DecrementTime =>
              /\ delay_timer' = IF delay_timer > 0 THEN delay_timer - 1 ELSE 0
              /\ UNCHANGED AllButDelayTimer
       /\ (Tick /\ ~halted') =>
              delay_timer' = IF Decoded.op = "WriteDelayTimer"
                             THEN registers[FetchedX]
                             ELSE delay_timer]_vars

\* WaitProgram waiting for a key with the 3 written to the timer ticked away
C17_Witness ==
    /\ Loaded(WaitProgram)
    /\ instruction_pointer = ProgramStart + 4
    /\ registers[0] = 3
    /\ delay_timer = 0
    /\ ~halted

(***************************************************************************)
(* C18: in every state reached from a load by steps, timer ticks and key   *)
(* events, memory bytes [0, 80) hold the glyph table.                      *)
(* StoreBCD and StoreRegisters write wherever the address register points: *)
(* at 0 right after the load, and inside the table after                   *)
(* GetSpriteDataAddress.                                                   *)
(***************************************************************************)
C18_GlyphTableIntact ==
    ~halted => \A a \in 0..(SpriteBytes - 1) : memory[a] = SpriteByte(a)

(***************************************************************************)
(* C19: a step whose instruction fetch, sprite read, BCD write or bulk     *)
(* register store or load addresses a byte at or beyond the end of memory  *)
(* halts the machine.                                                      *)
(* Built without overflow checks, DrawSprite computes the end of its range *)
(* of addresses, I + N, modulo 65536: when the sum wraps the range is      *)
(* empty, nothing is read and the step completes.                          *)
(***************************************************************************)
DataAccessBeyondMemory ==
    CASE Decoded.op = "DrawSprite" ->
            \E row \in 0..(Decoded.value - 1) : ~InMemory(address_register + row)
      [] Decoded.op = "StoreBCD" ->
            \E i \in 0..2 : ~InMemory(address_register + i)
      [] Decoded.op \in {"StoreRegisters", "FillRegisters"} -> ~BulkInMemory
      [] OTHER -> FALSE

AccessBeyondMemory == IF FetchOk THEN DataAccessBeyondMemory ELSE TRUE

C19_OutOfBoundsHalts ==
    [][(AccessBeyondMemory /\ Tick) => halted']_vars

(***************************************************************************)
(* C20: a raw instruction of class 5 or 9 decodes exactly when the low     *)
(* nibble of its second byte is 0, to skip-if-registers-equal (class 5) or *)
(* skip-if-registers-not-equal (class 9) with the register operands (low   *)
(* nibble of the first byte, high nibble of the second); with any other    *)
(* low nibble decode returns None and does not panic.                      *)
(***************************************************************************)
C20_RegisterSkipsDecode ==
    disassembly # <<>> =>
        LET raw == get_instruction(Machine, ProgramStart)
            class == raw[1] \div 16
        IN class \in {5, 9} =>
              IF raw[2] % 16 = 0
              THEN /\ disassembly[1].op = IF class = 5 THEN "SkipFollowingIfRegEqReg"
                                          ELSE "SkipIfNE"
                   /\ disassembly[1].reg0 = raw[1] % 16
                   /\ disassembly[1].reg1 = raw[2] \div 16
              ELSE disassembly[1].op = "None" /\ ~halted

\* 9AB1 disassembled: no instruction
C20_Witness ==
    /\ disassembly # <<>>
    /\ get_instruction(Machine, ProgramStart) = <<154, 177>>
    /\ disassembly[1].op = "None"
    /\ ~halted

(***************************************************************************)
(* C21: a raw instruction of class 8 decodes exactly when the low nibble   *)
(* of its second byte is 0..7 or E (copy, OR, AND, XOR, add-with-carry,    *)
(* subtract-with-carry, shift-right, reversed subtract, shift-left), with  *)
(* the registers (low nibble of the first byte, high nibble of the         *)
(* second); one of class E exactly when its second byte is 9E or A1; one   *)
(* of class F exactly when its second byte is 07, 0A, 15, 18, 1E, 29, 33,  *)
(* 55 or 65; the instructions of classes E and F carry the register named  *)
(* by the low nibble of the first byte.  Every other pattern of these      *)
(* classes decodes to None.                                                *)
(***************************************************************************)
C21_Class8Names ==
    (0 :> "MoveValue") @@ (1 :> "OrRegister") @@ (2 :> "AndRegister")
        @@ (3 :> "XorRegister") @@ (4 :> "AddWithCarry") @@ (5 :> "SubWithCarry")
        @@ (6 :> "ShiftRight") @@ (7 :> "SubWithCarry2") @@ (14 :> "ShiftLeft")
C21_ClassENames ==
    (158 :> "SkipIfKeyPressed") @@ (161 :> "SkipIfKeyNotPressed")
C21_ClassFNames ==
    (7 :> "ReadDelayTimer") @@ (10 :> "WaitForKey") @@ (21 :> "WriteDelayTimer")
        @@ (24 :> "WriteSoundTimer") @@ (30 :> "IncrementIWithReg")
        @@ (41 :> "GetSpriteDataAddress") @@ (51 :> "StoreBCD")
        @@ (85 :> "StoreRegisters") @@ (101 :> "FillRegisters")

C21_RegisterClassesDecode ==
    disassembly # <<>> =>
        LET raw == get_instruction(Machine, ProgramStart)
            class == raw[1] \div 16
            decoded == disassembly[1]
        IN
        /\ class = 8 =>
              IF raw[2] % 16 \in DOMAIN C21_Class8Names
              THEN /\ decoded.op = C21_Class8Names[raw[2] % 16]
                   /\ decoded.reg0 = raw[1] % 16
                   /\ decoded.reg1 = raw[2] \div 16
              ELSE decoded.op = "None"
        /\ class = 14 =>
              IF raw[2] \in DOMAIN C21_ClassENames
              THEN /\ decoded.op = C21_ClassENames[raw[2]]
                   /\ decoded.reg0 = raw[1] % 16
              ELSE decoded.op = "None"
        /\ class = 15 =>
              IF raw[2] \in DOMAIN C21_ClassFNames
              THEN /\ decoded.op = C21_ClassFNames[raw[2]]
                   /\ decoded.reg0 = raw[1] % 16
              ELSE decoded.op = "None"

\* 8ABE disassembled: shift-left with registers A and B
C21_Witness ==
    /\ disassembly # <<>>
    /\ get_instruction(Machine, ProgramStart) = <<138, 190>>
    /\ disassembly[1].op = "ShiftLeft"
    /\ disassembly[1].reg0 = 10
    /\ disassembly[1].reg1 = 11
    /\ ~halted

(***************************************************************************)
(* C22: a step executing shift-right or shift-left 8XY6 / 8XYE reads one   *)
(* register, VY: register X receives VY shifted by one bit (mod 256) and   *)
(* register 15 the bit shifted out of VY (its least significant bit for    *)
(* shift-right, its most significant for shift-left), written last; no     *)
(* other register's value enters the result, VX's included, and nothing    *)
(* else changes but the pointer, which advances by 2.                      *)
(***************************************************************************)
C22_Shifted(value, out) ==
    [r \in Reg |-> IF r = 15 THEN out
                   ELSE IF r = FetchedX THEN value
                   ELSE registers[r]]

C22_ShiftsReadOneRegister ==
    [][/\ (/\ FetchOk
           /\ Decoded.op = "ShiftRight"
           /\ Tick) =>
              /\ registers' = C22_Shifted(registers[FetchedY] \div 2,
                                          registers[FetchedY] % 2)
              /\ instruction_pointer' = instruction_pointer + 2
              /\ UNCHANGED AllButPointerAndRegisters
       /\ (/\ FetchOk
           /\ Decoded.op = "ShiftLeft"
           /\ Tick) =>
              /\ registers' = C22_Shifted((registers[FetchedY] * 2) % 256,
                                          registers[FetchedY] \div 128)
              /\ instruction_pointer' = instruction_pointer + 2
              /\ UNCHANGED AllButPointerAndRegisters]_vars

\* ArithProgram(6) after 8016 with V1 = 83: V0 is 41 and the flag 1, whatever
\* V0 held (one of FE, FF, 00, 01, 7E, 7F, 80, 81)
C22_Witness ==
    /\ Loaded(ArithProgram(6))
    /\ instruction_pointer = ProgramStart + 10
    /\ registers[1] = 131
    /\ registers[0] = 65
    /\ registers[15] = 1
    /\ ~halted

(***************************************************************************)
(* C23: a step executing draw-sprite with its rows inside memory changes   *)
(* the framebuffer only (and advances the pointer by 2): bit c of row r    *)
(* sets the pixel at column x + c and row (y + r) mod 256 lit when it is 1 *)
(* and unlit when it is 0, where that pixel is on the 64 x 32 screen;      *)
(* register 15 is unchanged.                                               *)
(* The column is the u8 sum x + c: with x above 248 it overflows, which    *)
(* panics with overflow checks and wraps to columns 0.. without them.      *)
(***************************************************************************)
C23_Rows == 0..(Decoded.value - 1)
C23_Cells ==
    {rc \in C23_Rows \X (0..7) :
        /\ registers[FetchedX] + rc[2] \in 0..63
        /\ (registers[FetchedY] + rc[1]) % 256 \in 0..31}
C23_Pixel(rc) ==
    <<registers[FetchedX] + rc[2], (registers[FetchedY] + rc[1]) % 256>>
C23_BitIsSet(rc) ==
    (memory[address_register + rc[1]] \div (2 ^ (7 - rc[2]))) % 2 = 1

C23_DrawOverwritesPixels ==
    [][(/\ FetchOk
        /\ Decoded.op = "DrawSprite"
        /\ \A row \in C23_Rows : InMemory(address_register + row)
        /\ Tick) =>
           /\ display' = (display \ {C23_Pixel(rc) : rc \in C23_Cells})
                            \cup {C23_Pixel(rc) : rc \in {q \in C23_Cells : C23_BitIsSet(q)}}
           /\ instruction_pointer' = instruction_pointer + 2
           /\ UNCHANGED <<memory, stack_memory, registers, keys, address_register,
                          delay_timer, sound_timer, halted>>]_vars

(***************************************************************************)
(* C24: a step executing store-BCD of a register holding v, with the bytes *)
(* A, A + 1, A + 2 inside memory (A the address register), writes          *)
(* memory[A] = v / 100, memory[A + 1] = (v / 10) mod 10 and                *)
(* memory[A + 2] = v mod 10, and leaves the address register, the          *)
(* registers and every other byte of memory as they were.                  *)
(***************************************************************************)
C24_StoreBCD ==
    [][(/\ FetchOk
        /\ Decoded.op = "StoreBCD"
        /\ \A i \in 0..2 : InMemory(address_register + i)
        /\ Tick) =>
           LET v == registers[FetchedX] IN
           /\ memory' = [a \in 0..(MemSize - 1) |->
                            IF a = address_register THEN v \div 100
                            ELSE IF a = address_register + 1 THEN (v \div 10) % 10
                            ELSE IF a = address_register + 2 THEN v % 10
                            ELSE memory[a]]
           /\ instruction_pointer' = instruction_pointer + 2
           /\ UNCHANGED <<stack_memory, registers, keys, address_register,
                          delay_timer, sound_timer, display, halted>>]_vars

\* BcdProgram at its end with V0 = 207: the digits 2, 0, 7 at addresses 80..82
C24_Witness ==
    /\ Loaded(BcdProgram)
    /\ instruction_pointer = ProgramStart + 8
    /\ registers[0] = 207
    /\ memory[80] = 2 /\ memory[81] = 0 /\ memory[82] = 7
    /\ address_register = 80
    /\ ~halted

(***************************************************************************)
(* C25: with the key mapping main builds, each of the 16 logical keys      *)
(* 0..F is the image of some physical key: in every state, every keypad    *)
(* flag can be set, or cleared when it is set, by a call of set_pressed.   *)
(* main lists Key::C twice, for B and for F: the map keeps the later       *)
(* entry, no physical key is mapped to B, and keypad flag B is never set.  *)
(***************************************************************************)
PhysicalKeys == {keymap_entries[i][1] : i \in DOMAIN keymap_entries}

C25_EveryFlagCanBeChanged ==
    ~halted =>
        \A k \in Reg :
            \E key \in PhysicalKeys :
                set_pressed(Machine, key, ~keys[k]).keys[k] = ~keys[k]

====
